---- MODULE Spec2Model ----
(***************************************************************************)
(* Model of the per-device processing-status engine of Web-logmonitor:     *)
(* FileMonitor.update_processing_status / get_all_processing_states        *)
(* (src/file_monitor.py), its older copy in src/windows_file_monitor.py,   *)
(* and the DataService operations that share the state table               *)
(* (src/web_interface/backend/data_service.py).                            *)
(*                                                                         *)
(* Time is datetime.now() in whole minutes.  Every step records the call   *)
(* it made in last_op, what the call returned in ret, the exception that   *)
(* left the call in exc and the warning-level log records in log.          *)
(***************************************************************************)
EXTENDS Integers, FiniteSets, Sequences, TLC

VARIABLES now, pi_states, monitoring_states, last_statuses,
          win_pi_states, last_op, ret, exc, log,
          cyc, trace, ui_instance,
          status_timestamps, status_counts, flashing_states, rect_fill,
          pi_monitor_tree, threads, ws

\* the polling cycle in progress, the record of the calls made, and the
\* executor threads inside update_processing_status
cycVars == <<cyc, trace, threads, ws>>
\* what UI.update_processing_status writes (ui.py:450-463)
uiTrack == <<status_timestamps, status_counts, rect_fill>>
\* the desktop panel: FileMonitor.ui_instance and the UI's own tables
uiVars == <<ui_instance, status_timestamps, status_counts, flashing_states,
            rect_fill, pi_monitor_tree>>

vars == <<now, pi_states, monitoring_states, last_statuses,
          win_pi_states, last_op, ret, exc, log,
          cyc, trace, ui_instance,
          status_timestamps, status_counts, flashing_states, rect_fill,
          pi_monitor_tree, threads, ws>>

\* ---------------------------------------------------------------- bounds
\* largest total_images value a sample carries
MaxCount == 2
\* the clock stops advancing here (minutes)
MaxTime == 20
\* minutes between two observable instants of the clock
TickMinutes == 5

\* ------------------------------------------------------------- constants
\* file_monitor.py:204 and windows_file_monitor.py:143 (timedelta(minutes=10))
stale_threshold_minutes == 10
\* check_pi_status_and_get_data(self): parameters after self
check_pi_status_and_get_data_params == 0
\* run_in_executor(None, check_pi_status_and_get_data, states_copy): arguments
get_pi_status_call_args == 1

\* the keys of FileMonitor.pi_states ({f"H{i}" for i in range(1, 11)}), cut
\* down to two devices
KnownDevices == {"H1", "H2"}
\* a device id that is not a key of pi_states
UnknownDevices == {"H99"}
DeviceIds == KnownDevices \cup UnknownDevices
Counts == 0..MaxCount

\* file_monitor.ProcessingStatus (values of the enum)
PROCESSING == "processing"
WAITING == "waiting"
DONE == "done"
DISABLED == "disabled"
OFFLINE == "offline"

\* ui.ProcessingStatus, used by windows_file_monitor (colour strings)
WIN_PROCESSING == "red"
WIN_WAITING == "yellow"
WIN_DONE == "green"

\* PiProcessingState.__init__ at time t
PiProcessingState(t) ==
    [last_count |-> 0, last_change_time |-> t, status |-> WAITING]

\* windows_file_monitor.PiProcessingState.__init__ at time t
WinPiProcessingState(t) ==
    [last_count |-> 0, last_change_time |-> t, status |-> WIN_WAITING]

\* dict.get(key, default)
DictGet(d, key, default) == IF key \in DOMAIN d THEN d[key] ELSE default

\* every dict from device ids to bool a caller can pass as monitoring_states
FlagMaps == UNION {[D -> BOOLEAN] : D \in SUBSET KnownDevices}

NoneRet == [type |-> "None"]

\* no polling cycle is inside its loop over the devices
NoStep == [pi_name |-> "None", flag |-> TRUE, outcome |-> "None",
           count |-> 0]
Idle == [kind |-> "idle", i |-> 0, flags |-> <<>>,
         sent |-> <<>>, tagged |-> <<>>, bibs |-> <<>>,
         visited |-> {}, step |-> NoStep]

\* the executor threads that can be inside the engine at the same time, and
\* the locals of a thread that is not inside update_processing_status
Threads == {1, 2}
NoCall == [pc |-> "idle"]

\* the websocket connections that can be opened and the background tasks
\* that can be created
MaxClients == 3
MaxTasks == 3
Clients == 1..MaxClients
TaskIds == 1..MaxTasks

\* no broadcast is inside its loop over the connections
NoBroadcast == [pc |-> "idle", owner |-> 0, idx |-> 0,
                disconnected_clients |-> <<>>,
                sent |-> <<>>, failed |-> {}, at_start |-> <<>>,
                present |-> {}]

\* WebSocketService.__init__: no connection, no task (background_task 0 is
\* None), the event clear; tasks, cancel, stopper and bc hold the positions
\* of the coroutines of the service
WebSocketService ==
    [active_connections |-> <<>>,
     background_task |-> 0,
     stop_event |-> FALSE,
     is_background_task_running |-> FALSE,
     connection_count |-> 0,
     tasks |-> [t \in TaskIds |-> "none"],
     cancel |-> {},
     stopper |-> [pc |-> "idle", waited |-> 0],
     bc |-> NoBroadcast]

TypeOK ==
    /\ now \in Nat
    /\ DOMAIN pi_states = KnownDevices
    /\ DOMAIN win_pi_states = KnownDevices
    /\ monitoring_states \in [KnownDevices -> BOOLEAN]
    /\ last_statuses \in [KnownDevices -> BOOLEAN]

\* the state after construction of the engine and of the service or panel
\* around it, but for the two switches of a run: whether the calls are
\* recorded and whether a UI has been handed to the engine
InitBase ==
    /\ now = 0
    /\ pi_states = [p \in KnownDevices |-> PiProcessingState(0)]
    /\ win_pi_states = [p \in KnownDevices |-> WinPiProcessingState(0)]
    /\ monitoring_states = [p \in KnownDevices |-> TRUE]
    /\ last_statuses = [p \in KnownDevices |-> FALSE]
    /\ last_op = [op |-> "__init__"]
    /\ ret = NoneRet
    /\ exc = "None"
    /\ log = {}
    /\ cyc = Idle
    /\ status_timestamps = <<>>
    /\ status_counts = <<>>
    /\ flashing_states = <<>>
    /\ rect_fill = [p \in KnownDevices |-> WIN_WAITING]
    /\ pi_monitor_tree = <<>>
    /\ threads = [t \in Threads |-> NoCall]
    /\ ws = WebSocketService

Init ==
    /\ InitBase
    /\ trace = [on |-> FALSE, seq |-> <<>>]
    /\ ui_instance = FALSE

\* the wall clock moves on between calls, up to the end of the run
Advance(limit) ==
    /\ now + TickMinutes <= limit
    /\ now' = now + TickMinutes
    /\ last_op' = [op |-> "tick"]
    /\ ret' = NoneRet
    /\ exc' = "None"
    /\ log' = {}
    /\ UNCHANGED <<pi_states, monitoring_states, last_statuses, win_pi_states>>
    /\ UNCHANGED <<cycVars, uiVars>>

Tick == Advance(MaxTime)

\* what the state table held for pi_name when a call began (the values the
\* debug record at the top of update_processing_status prints); kept in
\* last_op so that a state shows the call's precondition next to its result
StateBefore(table, pi_name) ==
    IF pi_name \in DOMAIN table THEN <<table[pi_name]>> ELSE <<>>

\* a dict with key set to value
DictSet(d, key, value) ==
    [k \in DOMAIN d \cup {key} |-> IF k = key THEN value ELSE d[k]]

\* status_color_map of update_processing_status (file_monitor.py:241-248)
StatusColor(status) ==
    CASE status = PROCESSING -> "red"
      [] status = WAITING -> "yellow"
      [] status = DONE -> "green"
      [] status = DISABLED -> "darkgrey"
      [] status = OFFLINE -> "red"
      [] OTHER -> "grey"

\* UI.update_processing_status(pi_name, status, count): the indicator takes
\* the colour and the tracking tables take the time and the count, for a
\* device that has an indicator and is monitored
UiShow(pi_name, status, count) ==
    IF pi_name \in DOMAIN rect_fill /\ DictGet(monitoring_states, pi_name, TRUE)
    THEN /\ rect_fill' = [rect_fill EXCEPT ![pi_name] = status]
         /\ status_timestamps' = DictSet(status_timestamps, pi_name, now)
         /\ status_counts' = DictSet(status_counts, pi_name, count)
    ELSE UNCHANGED uiTrack

\* NewState with the increase branch skipped for a device that is DONE
NewState_DoneBlocksIncrease(state, current_count, t) ==
    LET time_since_change == t - state.last_change_time
        increased == current_count > state.last_count /\ state.status # DONE
        new_status ==
            IF increased THEN PROCESSING
            ELSE IF current_count >= state.last_count THEN
                IF time_since_change > stale_threshold_minutes
                THEN (IF state.status # DONE THEN DONE ELSE state.status)
                ELSE (IF state.status # DONE THEN WAITING ELSE state.status)
            ELSE WAITING
    IN [last_count |-> current_count,
        last_change_time |->
            IF increased \/ current_count < state.last_count THEN t
            ELSE state.last_change_time,
        status |-> new_status]

\* NewState with new_status starting as WAITING instead of state.status
NewState_StartsWaiting(state, current_count, t) ==
    LET time_since_change == t - state.last_change_time
        new_status ==
            IF current_count > state.last_count THEN PROCESSING
            ELSE IF current_count = state.last_count THEN
                IF time_since_change > stale_threshold_minutes
                THEN (IF state.status # DONE THEN DONE ELSE WAITING)
                ELSE WAITING
            ELSE WAITING
    IN [last_count |-> current_count,
        last_change_time |->
            IF current_count # state.last_count THEN t
            ELSE state.last_change_time,
        status |-> new_status]

\* NewState with last_change_time also set when the status becomes DONE
NewState_DoneResetsTime(state, current_count, t) ==
    LET time_since_change == t - state.last_change_time
        stale == time_since_change > stale_threshold_minutes
        new_status ==
            IF current_count > state.last_count THEN PROCESSING
            ELSE IF current_count = state.last_count THEN
                IF stale
                THEN (IF state.status # DONE THEN DONE ELSE state.status)
                ELSE (IF state.status # DONE THEN WAITING ELSE state.status)
            ELSE WAITING
    IN [last_count |-> current_count,
        last_change_time |->
            IF current_count # state.last_count
               \/ (stale /\ state.status # DONE)
            THEN t ELSE state.last_change_time,
        status |-> new_status]

\* NewState with the stale test written >= instead of >
NewState_StaleAtThreshold(state, current_count, t) ==
    LET time_since_change == t - state.last_change_time
        new_status ==
            IF current_count > state.last_count THEN PROCESSING
            ELSE IF current_count = state.last_count THEN
                IF time_since_change >= stale_threshold_minutes
                THEN (IF state.status # DONE THEN DONE ELSE state.status)
                ELSE (IF state.status # DONE THEN WAITING ELSE state.status)
            ELSE WAITING
    IN [last_count |-> current_count,
        last_change_time |->
            IF current_count # state.last_count THEN t
            ELSE state.last_change_time,
        status |-> new_status]

\* NewState with last_change_time set by every call, equal counts included
NewState_TouchesTimeOnEqual(state, current_count, t) ==
    LET time_since_change == t - state.last_change_time
        new_status ==
            IF current_count > state.last_count THEN PROCESSING
            ELSE IF current_count = state.last_count THEN
                IF time_since_change > stale_threshold_minutes
                THEN (IF state.status # DONE THEN DONE ELSE state.status)
                ELSE (IF state.status # DONE THEN WAITING ELSE state.status)
            ELSE WAITING
    IN [last_count |-> current_count,
        last_change_time |-> t,
        status |-> new_status]

\* NewState with PROCESSING kept, like DONE, while the count is unchanged
\* within the threshold
NewState_EqualKeepsProcessing(state, current_count, t) ==
    LET time_since_change == t - state.last_change_time
        new_status ==
            IF current_count > state.last_count THEN PROCESSING
            ELSE IF current_count = state.last_count THEN
                IF time_since_change > stale_threshold_minutes
                THEN (IF state.status # DONE THEN DONE ELSE state.status)
                ELSE (IF state.status \notin {DONE, PROCESSING} THEN WAITING
                      ELSE state.status)
            ELSE WAITING
    IN [last_count |-> current_count,
        last_change_time |->
            IF current_count # state.last_count THEN t
            ELSE state.last_change_time,
        status |-> new_status]

\* the record update_processing_status leaves for a known device: new_status
\* starts as state.status, the if/elif/else on the count replaces it and
\* sets last_change_time, the two assignments at the end store the rest
NewState(state, current_count, t) ==
    LET time_since_change == t - state.last_change_time
        new_status ==
            IF current_count > state.last_count THEN PROCESSING
            ELSE IF current_count = state.last_count THEN
                IF time_since_change > stale_threshold_minutes
                THEN (IF state.status # DONE THEN DONE ELSE state.status)
                ELSE (IF state.status # DONE THEN WAITING ELSE state.status)
            ELSE WAITING
        new_change_time ==
            IF current_count # state.last_count THEN t
            ELSE state.last_change_time
    IN [last_count |-> current_count,
        last_change_time |-> new_change_time,
        status |-> new_status]

\* the calls on known devices so far, kept while trace.on: the sample, the
\* time of the call, the time since last_change_time the call saw and the
\* status it left
TraceAfter(pi_name, current_count) ==
    IF trace.on /\ pi_name \in DOMAIN pi_states
    THEN [trace EXCEPT !.seq =
            Append(@, [pi_name |-> pi_name,
                       count |-> current_count,
                       time |-> now,
                       since_change |->
                           now - pi_states[pi_name].last_change_time,
                       status |-> NewState(pi_states[pi_name],
                                           current_count, now).status])]
    ELSE trace

\* the warning-level records update_processing_status writes
UpdateLog(pi_name, current_count) ==
    IF pi_name \notin DOMAIN pi_states THEN {"unknown_pi"}
    ELSE IF current_count < pi_states[pi_name].last_count
         THEN {"count_decreased"}
         ELSE {}

\* update_processing_status with the table lookup before the membership
\* test, as in the windows copy: an unknown name leaves as KeyError
update_processing_status_LookupFirst(pi_name, current_count) ==
    /\ pi_states' =
         IF pi_name \notin DOMAIN pi_states THEN pi_states
         ELSE [pi_states EXCEPT
                 ![pi_name] = NewState(pi_states[pi_name], current_count, now)]
    /\ log' = UpdateLog(pi_name, current_count) \ {"unknown_pi"}
    /\ exc' = IF pi_name \notin DOMAIN pi_states THEN "KeyError" ELSE "None"
    /\ ret' = NoneRet
    /\ last_op' = [op |-> "update_processing_status",
                   pi_name |-> pi_name, count |-> current_count,
                   before |-> StateBefore(pi_states, pi_name)]
    /\ trace' = TraceAfter(pi_name, current_count)
    /\ IF ui_instance /\ pi_name \in DOMAIN pi_states
       THEN UiShow(pi_name,
                   StatusColor(NewState(pi_states[pi_name],
                                        current_count, now).status),
                   current_count)
       ELSE UNCHANGED uiTrack
    /\ UNCHANGED <<now, monitoring_states, last_statuses, win_pi_states,
                   threads, ws, ui_instance, flashing_states,
                   pi_monitor_tree>>

\* update_processing_status with a record created on first sight of a name
\* (pi_states.setdefault(pi_name, PiProcessingState()))
update_processing_status_CreatesRecord(pi_name, current_count) ==
    /\ pi_states' =
         [q \in DOMAIN pi_states \cup {pi_name} |->
            IF q # pi_name THEN pi_states[q]
            ELSE NewState(IF q \in DOMAIN pi_states THEN pi_states[q]
                          ELSE PiProcessingState(now),
                          current_count, now)]
    /\ log' = UpdateLog(pi_name, current_count) \ {"unknown_pi"}
    /\ exc' = "None"
    /\ ret' = NoneRet
    /\ last_op' = [op |-> "update_processing_status",
                   pi_name |-> pi_name, count |-> current_count,
                   before |-> StateBefore(pi_states, pi_name)]
    /\ trace' = TraceAfter(pi_name, current_count)
    /\ IF ui_instance /\ pi_name \in DOMAIN pi_states
       THEN UiShow(pi_name,
                   StatusColor(NewState(pi_states[pi_name],
                                        current_count, now).status),
                   current_count)
       ELSE UNCHANGED uiTrack
    /\ UNCHANGED <<now, monitoring_states, last_statuses, win_pi_states,
                   threads, ws, ui_instance, flashing_states,
                   pi_monitor_tree>>

\* FileMonitor.update_processing_status(pi_name, current_count)
update_processing_status(pi_name, current_count) ==
    /\ pi_states' =
         IF pi_name \notin DOMAIN pi_states THEN pi_states
         ELSE [pi_states EXCEPT
                 ![pi_name] = NewState(pi_states[pi_name], current_count, now)]
    /\ log' = UpdateLog(pi_name, current_count)
    /\ exc' = "None"
    /\ ret' = NoneRet
    /\ last_op' = [op |-> "update_processing_status",
                   pi_name |-> pi_name, count |-> current_count,
                   before |-> StateBefore(pi_states, pi_name)]
    /\ trace' = TraceAfter(pi_name, current_count)
    /\ IF ui_instance /\ pi_name \in DOMAIN pi_states
       THEN UiShow(pi_name,
                   StatusColor(NewState(pi_states[pi_name],
                                        current_count, now).status),
                   current_count)
       ELSE UNCHANGED uiTrack
    /\ UNCHANGED <<now, monitoring_states, last_statuses, win_pi_states,
                   threads, ws, ui_instance, flashing_states,
                   pi_monitor_tree>>

\* the state table get_pi_status would leave if the probe results arrived:
\* data_service.py lines 162-168, every monitored device that is not online
\* is marked OFFLINE (the stored status is never data_service's DISABLED)
MarkOffline(statuses) ==
    [p \in KnownDevices |->
        IF ~statuses[p] /\ DictGet(monitoring_states, p, TRUE)
           /\ pi_states[p].status # DISABLED
        THEN [pi_states[p] EXCEPT !.status = OFFLINE]
        ELSE pi_states[p]]

\* the call as it would be if the method took the flag copy it is passed
ProbeCallRaises_ArityMatches == FALSE

\* does the executor call check_pi_status_and_get_data(states_copy) raise
\* TypeError: the method takes no argument after self, the call passes one
ProbeCallRaises ==
    get_pi_status_call_args # check_pi_status_and_get_data_params

\* DataService.get_pi_status(); connected is what is_connected() answers and
\* statuses is what the health probes of this cycle would answer
get_pi_status(connected, statuses) ==
    /\ IF connected /\ ~ProbeCallRaises
       THEN /\ last_statuses' = statuses
            /\ pi_states' = MarkOffline(statuses)
            /\ ret' = [type |-> "pi_status", statuses |-> statuses]
            /\ log' = {}
       ELSE /\ UNCHANGED <<last_statuses, pi_states>>
            /\ ret' = [type |-> "pi_status", statuses |-> last_statuses]
            /\ log' = IF connected THEN {"check_pi_status_error"}
                      ELSE {"share_not_connected"}
    /\ exc' = "None"
    /\ last_op' = [op |-> "get_pi_status", connected |-> connected,
                   statuses |-> statuses]
    /\ UNCHANGED <<now, monitoring_states, win_pi_states>>
    /\ UNCHANGED <<cycVars, uiVars>>

\* DataService.set_monitoring_state(device, state)
set_monitoring_state(device, state) ==
    /\ monitoring_states' =
         IF device \in DOMAIN monitoring_states
         THEN [monitoring_states EXCEPT ![device] = state]
         ELSE monitoring_states
    /\ exc' = "None"
    /\ ret' = NoneRet
    /\ log' = {}
    /\ last_op' = [op |-> "set_monitoring_state",
                   device |-> device, state |-> state]
    /\ UNCHANGED <<now, pi_states, last_statuses, win_pi_states>>
    /\ UNCHANGED <<cycVars, uiVars>>

\* UI._toggle_monitoring(pi_name, var): the checkbox value is stored in the
\* UI's own flag map
toggle_monitoring(pi_name, is_monitored) ==
    /\ monitoring_states' = DictSet(monitoring_states, pi_name, is_monitored)
    /\ exc' = "None"
    /\ ret' = NoneRet
    /\ log' = {}
    /\ last_op' = [op |-> "_toggle_monitoring",
                   pi_name |-> pi_name, state |-> is_monitored]
    /\ UNCHANGED <<now, pi_states, last_statuses, win_pi_states>>
    /\ UNCHANGED <<cycVars, uiVars>>

\* AllProcessingStates with the count of an unmonitored device passed on
AllProcessingStates_KeepsCount(flags) ==
    [pi_name \in DOMAIN pi_states |->
        LET is_monitored == DictGet(flags, pi_name, TRUE)
        IN [status |-> IF ~is_monitored THEN DISABLED
                       ELSE pi_states[pi_name].status,
            count |-> pi_states[pi_name].last_count]]

\* the dict FileMonitor.get_all_processing_states(monitoring_states) builds
AllProcessingStates(flags) ==
    [pi_name \in DOMAIN pi_states |->
        LET is_monitored == DictGet(flags, pi_name, TRUE)
        IN [status |-> IF ~is_monitored THEN DISABLED
                       ELSE pi_states[pi_name].status,
            count |-> IF is_monitored THEN pi_states[pi_name].last_count
                      ELSE 0]]

\* get_all_processing_states writing the overlay into the table: the record
\* of an unmonitored device is replaced by a fresh one
get_all_processing_states_ResetsDisabled(flags) ==
    /\ ret' = [type |-> "states", states |-> AllProcessingStates(flags)]
    /\ pi_states' = [p \in DOMAIN pi_states |->
                        IF DictGet(flags, p, TRUE) THEN pi_states[p]
                        ELSE PiProcessingState(now)]
    /\ exc' = "None"
    /\ log' = {}
    /\ last_op' = [op |-> "get_all_processing_states", flags |-> flags]
    /\ UNCHANGED <<now, monitoring_states, last_statuses, win_pi_states>>
    /\ UNCHANGED <<cycVars, uiVars>>

\* FileMonitor.get_all_processing_states(monitoring_states)
get_all_processing_states(flags) ==
    /\ ret' = [type |-> "states", states |-> AllProcessingStates(flags)]
    /\ exc' = "None"
    /\ log' = {}
    /\ last_op' = [op |-> "get_all_processing_states", flags |-> flags]
    /\ UNCHANGED <<now, pi_states, monitoring_states, last_statuses,
                   win_pi_states>>
    /\ UNCHANGED <<cycVars, uiVars>>

\* the record windows_file_monitor's update_processing_status leaves
WinNewState(state, current_count, t) ==
    LET time_since_change == t - state.last_change_time
    IN [last_count |-> current_count,
        last_change_time |->
            IF current_count > state.last_count THEN t
            ELSE state.last_change_time,
        status |->
            IF current_count > state.last_count THEN WIN_PROCESSING
            ELSE IF current_count = state.last_count THEN
                IF time_since_change > stale_threshold_minutes
                THEN (IF state.status # WIN_DONE THEN WIN_DONE
                      ELSE state.status)
                ELSE (IF state.status # WIN_WAITING THEN WIN_WAITING
                      ELSE state.status)
            ELSE state.status]

\* windows_file_monitor.FileMonitor.update_processing_status: the lookup
\* self.pi_states[pi_name] raises KeyError for an unknown name
win_update_processing_status(pi_name, current_count) ==
    /\ win_pi_states' =
         IF pi_name \notin DOMAIN win_pi_states THEN win_pi_states
         ELSE [win_pi_states EXCEPT
                 ![pi_name] = WinNewState(win_pi_states[pi_name],
                                          current_count, now)]
    /\ exc' = IF pi_name \notin DOMAIN win_pi_states THEN "KeyError"
              ELSE "None"
    /\ log' = {}
    /\ ret' = NoneRet
    /\ last_op' = [op |-> "win_update_processing_status",
                   pi_name |-> pi_name, count |-> current_count,
                   before |-> StateBefore(win_pi_states, pi_name)]
    /\ IF ui_instance /\ pi_name \in DOMAIN win_pi_states
       THEN UiShow(pi_name,
                   WinNewState(win_pi_states[pi_name],
                               current_count, now).status,
                   current_count)
       ELSE UNCHANGED uiTrack
    /\ UNCHANGED <<now, pi_states, monitoring_states, last_statuses,
                   trace, threads, ws, ui_instance, flashing_states,
                   pi_monitor_tree>>

\* ------------------------------------------------------------ collectors
\* the order in which a cycle visits the devices (range(1, 11))
DeviceOrder == <<"H1", "H2">>

\* what the statistics API does to one request: a 200 with a JSON body, a
\* timeout, a refused connection, a non-200 status, an unparseable body
Failures == {"timeout", "connection", "status", "json"}
Upstream == {"ok"} \cup Failures

\* the exception file_monitor.get_pi_total_images ends with: the
\* ApiResponseError of the inner branches is caught by the outer
\* "except Exception" and leaves as FileMonitorError
RaisedBy(outcome) ==
    CASE outcome = "timeout" -> "ApiTimeoutError"
      [] outcome = "connection" -> "ApiConnectionError"
      [] OTHER -> "FileMonitorError"

\* a flag map read as every consumer reads it: .get(pi_name, True)
Monitored_MissingIsOff(flags, pi_name) == DictGet(flags, pi_name, FALSE)

Monitored(flags, pi_name) == DictGet(flags, pi_name, TRUE)

\* get_pi_total_images that evaluates the default 0 when the call fails
get_pi_total_images_EvaluatesZero(pi_name, outcome, total_images) ==
    update_processing_status(pi_name,
                             IF outcome = "ok" THEN total_images ELSE 0)

\* file_monitor.FileMonitor.get_pi_total_images: a good answer is handed to
\* update_processing_status, every failure is raised before that call
get_pi_total_images(pi_name, outcome, total_images) ==
    IF outcome = "ok"
    THEN update_processing_status(pi_name, total_images)
    ELSE /\ exc' = RaisedBy(outcome)
         /\ ret' = NoneRet
         /\ log' = {}
         /\ last_op' = [op |-> "get_pi_total_images", pi_name |-> pi_name,
                        outcome |-> outcome]
         /\ UNCHANGED <<now, pi_states, monitoring_states, last_statuses,
                        win_pi_states, trace, threads, ws, uiVars>>

\* windows_file_monitor.FileMonitor.get_pi_total_images: every failure,
\* the KeyError of an unknown name included, is caught and 0 returned
win_get_pi_total_images(pi_name, outcome, total_images) ==
    IF outcome = "ok" /\ pi_name \in DOMAIN win_pi_states
    THEN win_update_processing_status(pi_name, total_images)
    ELSE /\ exc' = "None"
         /\ ret' = [type |-> "int", value |-> 0]
         /\ log' = {}
         /\ last_op' = [op |-> "win_get_pi_total_images",
                        pi_name |-> pi_name, outcome |-> outcome]
         /\ UNCHANGED <<now, pi_states, monitoring_states, last_statuses,
                        win_pi_states, trace, threads, ws, uiVars>>

\* the branch of a cycle for a device whose flag is off: zeros are appended
\* and the loop continues, nothing is fetched or evaluated
NotSampled(pi_name) ==
    /\ exc' = "None"
    /\ ret' = NoneRet
    /\ log' = {}
    /\ last_op' = [op |-> "skip_disabled", pi_name |-> pi_name]
    /\ UNCHANGED <<now, pi_states, monitoring_states, last_statuses,
                   win_pi_states, trace, threads, ws, uiVars>>

\* a cycle that fetches and evaluates a device whatever its flag
Sample_IgnoresFlag(pi_name, flag, outcome, total_images) ==
    get_pi_total_images(pi_name, outcome, total_images)

\* one device of a cycle: skipped when its flag is off, fetched otherwise
Sample(pi_name, flag, outcome, total_images) ==
    IF flag THEN get_pi_total_images(pi_name, outcome, total_images)
    ELSE NotSampled(pi_name)

\* what a cycle remembers of the device it has just handled: its name, the
\* flag the cycle read for it, and what the statistics API would answer for
\* it (the outcome of the request and the count it holds)
StepOf(pi_name, flag, outcome, total_images) ==
    [pi_name |-> pi_name, flag |-> flag, outcome |-> outcome,
     count |-> total_images]

\* DataService._get_pi_statistics_sync(current_monitoring_states) enters
\* its loop with empty lists
StartStatsCycle(flags) ==
    /\ cyc.kind \notin {"web", "desk"}
    /\ cyc' = [Idle EXCEPT !.kind = "web", !.i = 1, !.flags = flags]
    /\ last_op' = [op |-> "_get_pi_statistics_sync", flags |-> flags]
    /\ ret' = NoneRet
    /\ exc' = "None"
    /\ log' = {}
    /\ UNCHANGED <<now, pi_states, monitoring_states, last_statuses,
                   win_pi_states, trace, threads, ws, uiVars>>

\* one iteration of the loop of _get_pi_statistics_sync: the three calls
\* run inside a per-device try, and the handler appends a zero to all three
\* lists whichever call failed
StatsStep(o1, total_images, o2, o3) ==
    /\ cyc.kind = "web"
    /\ cyc.i <= Len(DeviceOrder)
    /\ LET pi_name == DeviceOrder[cyc.i]
           flag == Monitored(cyc.flags, pi_name)
           got1 == flag /\ o1 = "ok"
           got2 == got1 /\ o2 = "ok"
           got3 == got2 /\ o3 = "ok"
           failed == flag /\ ~got3
           add(list, got) ==
               LET a == IF got THEN Append(list, pi_name) ELSE list
               IN IF ~flag \/ failed THEN Append(a, pi_name) ELSE a
       IN /\ Sample(pi_name, flag, o1, total_images)
          /\ cyc' = [cyc EXCEPT !.i = @ + 1,
                                !.sent = add(@, got1),
                                !.tagged = add(@, got2),
                                !.bibs = add(@, got3),
                                !.visited = @ \cup {pi_name},
                                !.step = StepOf(pi_name, flag, o1,
                                                total_images)]

\* _get_pi_statistics_sync returns the three lists
FinishStatsCycle ==
    /\ cyc.kind = "web"
    /\ cyc.i > Len(DeviceOrder)
    /\ cyc' = [cyc EXCEPT !.kind = "returned"]
    /\ ret' = [type |-> "statistics", sent |-> cyc.sent,
               tagged |-> cyc.tagged, bibs |-> cyc.bibs]
    /\ last_op' = [op |-> "_get_pi_statistics_sync_return"]
    /\ exc' = "None"
    /\ log' = {}
    /\ UNCHANGED <<now, pi_states, monitoring_states, last_statuses,
                   win_pi_states, trace, threads, ws, uiVars>>

\* LogMonitor.monitor_files_processed starts a pass over the devices; the
\* pass takes no copy of the flags, cyc.flags only remembers what they were
\* when it started
StartFilesProcessed ==
    /\ cyc.kind \notin {"web", "desk"}
    /\ cyc' = [Idle EXCEPT !.kind = "desk", !.i = 1,
                           !.flags = monitoring_states]
    /\ last_op' = [op |-> "monitor_files_processed"]
    /\ ret' = NoneRet
    /\ exc' = "None"
    /\ log' = {}
    /\ UNCHANGED <<now, pi_states, monitoring_states, last_statuses,
                   win_pi_states, trace, threads, ws, uiVars>>

\* one iteration of the loop of monitor_files_processed: the flag is read
\* from the UI's live map, and the try encloses the whole loop, so an
\* exception of any of the three calls ends the pass
FilesProcessedStep(o1, total_images, o2, o3) ==
    /\ cyc.kind = "desk"
    /\ cyc.i <= Len(DeviceOrder)
    /\ LET pi_name == DeviceOrder[cyc.i]
           flag == Monitored(monitoring_states, pi_name)
           got1 == flag /\ o1 = "ok"
           got2 == got1 /\ o2 = "ok"
           got3 == got2 /\ o3 = "ok"
           failed == flag /\ ~got3
           add(list, got) ==
               IF ~flag \/ got THEN Append(list, pi_name) ELSE list
       IN /\ Sample(pi_name, flag, o1, total_images)
          /\ cyc' = [cyc EXCEPT !.kind = IF failed THEN "aborted" ELSE @,
                                !.i = @ + 1,
                                !.sent = add(@, got1),
                                !.tagged = add(@, got2),
                                !.bibs = add(@, got3),
                                !.visited = @ \cup {pi_name},
                                !.step = StepOf(pi_name, flag, o1,
                                                total_images)]

\* the pass reaches the end of the loop and hands the lists to the widget
FinishFilesProcessed ==
    /\ cyc.kind = "desk"
    /\ cyc.i > Len(DeviceOrder)
    /\ cyc' = [cyc EXCEPT !.kind = "returned"]
    /\ ret' = NoneRet
    /\ last_op' = [op |-> "update_files_processed_widget"]
    /\ exc' = "None"
    /\ log' = {}
    /\ UNCHANGED <<now, pi_states, monitoring_states, last_statuses,
                   win_pi_states, trace, threads, ws, uiVars>>

\* ------------------------------------------------------------ alert detector
\* config.py: seconds without an update, and files of difference
STATUS_STALE_THRESHOLD == 15 * 60
STATUS_PROCESSED_THRESHOLD == 4

\* the "processed" cells the health check writes into the monitor tree:
\* str(totalFiles) of the device's answer, "0" when the answer is missing
Cells == {"0", "5", "None"}

\* int(value) if value.isdigit() else 0
ProcessedInt(cell) ==
    CASE cell = "0" -> 0
      [] cell = "5" -> 5
      [] OTHER -> 0

\* UI._get_pi_processed_values: the rows of the monitor tree by name
PiProcessedValues ==
    [name \in DOMAIN pi_monitor_tree |-> ProcessedInt(pi_monitor_tree[name])]

Abs(x) == IF x < 0 THEN -x ELSE x

\* ui.ProcessingStatus.get_flash_color: flash_colors.get(status, status)
get_flash_color(status) ==
    CASE status = WIN_PROCESSING -> "darkred"
      [] status = WIN_WAITING -> "gold"
      [] status = WIN_DONE -> "darkgreen"
      [] OTHER -> status

\* UI.update_pi_monitor_widget(data): the rows of monitored names replace
\* the rows of the tree
update_pi_monitor_widget(data) ==
    /\ pi_monitor_tree' =
         [name \in {n \in DOMAIN data : Monitored(monitoring_states, n)}
            |-> data[name]]
    /\ last_op' = [op |-> "update_pi_monitor_widget"]
    /\ ret' = NoneRet
    /\ exc' = "None"
    /\ log' = {}
    /\ UNCHANGED <<now, pi_states, monitoring_states, last_statuses,
                   win_pi_states, cycVars, ui_instance, uiTrack,
                   flashing_states>>

\* the tests of check_status_updates with the count test written >=
Flashes_AtThreshold(flags, pi_name) ==
    /\ pi_name \in DOMAIN status_timestamps
    /\ Monitored(flags, pi_name)
    /\ (now - status_timestamps[pi_name]) * 60 > STATUS_STALE_THRESHOLD
    /\ pi_name \in DOMAIN status_counts
    /\ pi_name \in DOMAIN PiProcessedValues
    /\ Abs(PiProcessedValues[pi_name] - status_counts[pi_name])
          >= STATUS_PROCESSED_THRESHOLD

\* the tests of check_status_updates without the test of the flag
Flashes_IgnoresFlag(flags, pi_name) ==
    /\ pi_name \in DOMAIN status_timestamps
    /\ (now - status_timestamps[pi_name]) * 60 > STATUS_STALE_THRESHOLD
    /\ pi_name \in DOMAIN status_counts
    /\ pi_name \in DOMAIN PiProcessedValues
    /\ Abs(PiProcessedValues[pi_name] - status_counts[pi_name])
          > STATUS_PROCESSED_THRESHOLD

\* the nested tests of check_status_updates for one indicator, read with the
\* flag map flags: a timestamp and the flag, the age of the timestamp in
\* seconds, a tracked count and a tree row, the difference of the two
Flashes(flags, pi_name) ==
    /\ pi_name \in DOMAIN status_timestamps
    /\ Monitored(flags, pi_name)
    /\ (now - status_timestamps[pi_name]) * 60 > STATUS_STALE_THRESHOLD
    /\ pi_name \in DOMAIN status_counts
    /\ pi_name \in DOMAIN PiProcessedValues
    /\ Abs(PiProcessedValues[pi_name] - status_counts[pi_name])
          > STATUS_PROCESSED_THRESHOLD

\* UI.check_status_updates: for every indicator that passes the tests the
\* flashing state is toggled (from False when absent), the colour is read
\* back from the rectangle, and the rectangle is given its flash colour
\* when the new flashing state is on and the colour just read otherwise
check_status_updates ==
    LET hit == {p \in DOMAIN rect_fill : Flashes(monitoring_states, p)}
        toggled(p) == ~DictGet(flashing_states, p, FALSE)
    IN /\ flashing_states' =
            [p \in DOMAIN flashing_states \cup hit |->
                IF p \in hit THEN toggled(p) ELSE flashing_states[p]]
       /\ rect_fill' =
            [p \in DOMAIN rect_fill |->
                IF p \in hit /\ toggled(p) THEN get_flash_color(rect_fill[p])
                ELSE rect_fill[p]]
       /\ last_op' = [op |-> "check_status_updates",
                      n |-> IF last_op.op = "check_status_updates"
                            THEN 1 - last_op.n ELSE 0]
       /\ ret' = NoneRet
       /\ exc' = "None"
       /\ log' = {}
       /\ UNCHANGED <<now, pi_states, monitoring_states, last_statuses,
                      win_pi_states, cycVars, ui_instance,
                      status_timestamps, status_counts, pi_monitor_tree>>

Next ==
    \/ Tick
    \/ \E p \in DeviceIds, c \in Counts :
          update_processing_status(p, c) /\ UNCHANGED cyc
    \/ \E f \in FlagMaps : get_all_processing_states(f)
    \/ \E p \in DeviceIds, b \in BOOLEAN : set_monitoring_state(p, b)
    \/ \E conn \in BOOLEAN, st \in [KnownDevices -> BOOLEAN] :
          get_pi_status(conn, st)

Spec == Init /\ [][Next]_vars

\* the desktop build: windows_file_monitor's engine alone
NextWin ==
    \/ Tick
    \/ \E p \in DeviceIds, c \in Counts :
          win_update_processing_status(p, c) /\ UNCHANGED cyc
    \/ \E p \in DeviceIds, o \in Upstream, c \in Counts :
          win_get_pi_total_images(p, o, c) /\ UNCHANGED cyc

SpecWin == Init /\ [][NextWin]_vars

\* the web backend's statistics pass over the Linux engine
NextWeb ==
    \/ \E f \in FlagMaps : StartStatsCycle(f)
    \/ \E o1 \in Upstream, c \in Counts, o2, o3 \in {"ok", "timeout"} :
          StatsStep(o1, c, o2, o3)
    \/ FinishStatsCycle

SpecWeb == Init /\ [][NextWeb]_vars

\* the two consumers of a flag map in the web backend, the statistics pass
\* and the snapshot, fed flag maps that lack devices
NextFlags ==
    \/ \E f \in FlagMaps : StartStatsCycle(f)
    \/ \E o1 \in {"ok", "timeout"}, c \in Counts :
          StatsStep(o1, c, "ok", "ok")
    \/ FinishStatsCycle
    \/ \E f \in FlagMaps : get_all_processing_states(f)

SpecFlags == Init /\ [][NextFlags]_vars

\* the desktop application on Linux: LogMonitor hands the UI to the engine
\* of file_monitor.py with set_ui
InitDesk ==
    /\ InitBase
    /\ trace = [on |-> FALSE, seq |-> <<>>]
    /\ ui_instance = TRUE

NextDesk ==
    \/ StartFilesProcessed
    \/ \E o1 \in Upstream, c \in Counts, o2, o3 \in {"ok", "timeout"} :
          FilesProcessedStep(o1, c, o2, o3)
    \/ FinishFilesProcessed
    \/ \E p \in KnownDevices, b \in BOOLEAN : toggle_monitoring(p, b)

SpecDesk == InitDesk /\ [][NextDesk]_vars

\* the desktop panel on Windows: the engine of windows_file_monitor.py
\* reports to the UI, the health check fills the monitor tree, the operator
\* toggles a device and the detector runs on its timer
NextDetector ==
    \/ Tick
    \/ \E c \in Counts :
          win_update_processing_status("H1", c) /\ UNCHANGED cyc
    \/ \E cell \in Cells :
          update_pi_monitor_widget([p \in KnownDevices |->
                                      IF p = "H1" THEN cell ELSE "0"])
    \/ \E b \in BOOLEAN : toggle_monitoring("H1", b)
    \/ check_status_updates

SpecDetector == InitDesk /\ [][NextDetector]_vars

\* one device fed a sequence of samples, every call recorded; the run is
\* long enough for a late first sample followed by a stale period
MaxCalls == 4
MaxTimeE2E == 30

InitE2E ==
    /\ InitBase
    /\ trace = [on |-> TRUE, seq |-> <<>>]
    /\ ui_instance = FALSE

NextE2E ==
    \/ Advance(MaxTimeE2E)
    \/ \E c \in Counts :
          /\ Len(trace.seq) < MaxCalls
          /\ update_processing_status("H1", c)
          /\ UNCHANGED cyc

SpecE2E == InitE2E /\ [][NextE2E]_vars

\* ------------------------------------------------- unsynchronised engine
\* update_processing_status takes no lock, and each statistics pass runs in
\* an executor thread, so two passes can be inside the method for the same
\* device at once.  The method is split at its reads and writes of the shared
\* record; the locals of each thread are kept in threads[t].

\* what the steps of a thread leave alone
ThreadFrame ==
    /\ ret' = NoneRet
    /\ exc' = "None"
    /\ UNCHANGED <<monitoring_states, last_statuses, win_pi_states, cyc,
                   trace, ws, uiVars>>

\* the thread reads the record, the clock, the current status and the time
\* since the last change into its locals
enter_update(t, pi_name, current_count) ==
    /\ threads[t].pc = "idle"
    /\ pi_name \in DOMAIN pi_states
    /\ threads' = [threads EXCEPT ![t] =
           [pc |-> "decide",
            pi_name |-> pi_name,
            current_count |-> current_count,
            now |-> now,
            new_status |-> pi_states[pi_name].status,
            time_since_change |-> now - pi_states[pi_name].last_change_time,
            branch |-> "none"]]
    /\ last_op' = [op |-> "enter_update", t |-> t]
    /\ log' = {}
    /\ UNCHANGED <<now, pi_states>>
    /\ ThreadFrame

\* the branch of the comparison against the record as it is now: an increase
\* and a decrease write last_change_time from the thread's own clock reading
decide_status(t) ==
    /\ threads[t].pc = "decide"
    /\ LET th == threads[t]
           state == pi_states[th.pi_name]
           branch == IF th.current_count > state.last_count THEN "increase"
                     ELSE IF th.current_count = state.last_count THEN "equal"
                     ELSE "decrease"
           new_status ==
               IF branch = "increase" THEN PROCESSING
               ELSE IF branch = "decrease" THEN WAITING
               ELSE IF state.status = DONE THEN th.new_status
               ELSE IF th.time_since_change > stale_threshold_minutes
                    THEN DONE
                    ELSE WAITING
       IN /\ threads' = [threads EXCEPT ![t] =
                 [th EXCEPT !.pc = "store_last_count",
                            !.new_status = new_status,
                            !.branch = branch]]
          /\ pi_states' =
                 IF branch = "equal" THEN pi_states
                 ELSE [pi_states EXCEPT
                          ![th.pi_name].last_change_time = th.now]
          /\ log' = IF branch = "decrease" THEN {"count_decreased"} ELSE {}
    /\ last_op' = [op |-> "decide_status", t |-> t]
    /\ UNCHANGED now
    /\ ThreadFrame

\* state.last_count = current_count
store_last_count(t) ==
    /\ threads[t].pc = "store_last_count"
    /\ pi_states' = [pi_states EXCEPT
           ![threads[t].pi_name].last_count = threads[t].current_count]
    /\ threads' = [threads EXCEPT ![t].pc = "store_status"]
    /\ last_op' = [op |-> "store_last_count", t |-> t]
    /\ log' = {}
    /\ UNCHANGED now
    /\ ThreadFrame

\* state.status = new_status, and the thread leaves the method
store_status(t) ==
    /\ threads[t].pc = "store_status"
    /\ pi_states' = [pi_states EXCEPT
           ![threads[t].pi_name].status = threads[t].new_status]
    /\ threads' = [threads EXCEPT ![t] = NoCall]
    /\ last_op' = [op |-> "store_status", t |-> t]
    /\ log' = {}
    /\ UNCHANGED now
    /\ ThreadFrame

NextConc ==
    \/ Tick
    \/ \E t \in Threads, c \in Counts : enter_update(t, "H1", c)
    \/ \E t \in Threads : decide_status(t)
    \/ \E t \in Threads : store_last_count(t)
    \/ \E t \in Threads : store_status(t)

SpecConc == Init /\ [][NextConc]_vars

\* one thread at a time: a thread enters only when no other is inside
NextSerial ==
    \/ Tick
    \/ \E t \in Threads, c \in Counts :
          /\ \A u \in Threads : threads[u].pc = "idle"
          /\ enter_update(t, "H1", c)
    \/ \E t \in Threads : decide_status(t)
    \/ \E t \in Threads : store_last_count(t)
    \/ \E t \in Threads : store_status(t)

SpecSerial == Init /\ [][NextSerial]_vars

\* a snapshot taken while one executor thread evaluates: the reads of
\* get_all_processing_states fall at any point between the steps of the
\* thread, the point between its two stores included
NextSnap ==
    \/ Tick
    \/ \E c \in Counts : enter_update(1, "H1", c)
    \/ decide_status(1)
    \/ store_last_count(1)
    \/ store_status(1)
    \/ \E f \in FlagMaps : get_all_processing_states(f)

SpecSnap == Init /\ [][NextSnap]_vars

\* ------------------------------------------------------ websocket service
\* a step of the service: only its own fields change
WsStep(op, new_ws) ==
    /\ ws' = new_ws
    /\ last_op' = op
    /\ ret' = NoneRet
    /\ exc' = "None"
    /\ log' = {}
    /\ UNCHANGED <<now, pi_states, monitoring_states, last_statuses,
                   win_pi_states, cyc, trace, threads, uiVars>>

Range(list) == {list[i] : i \in DOMAIN list}

\* list.remove(c) on a list without repetitions
Remove(list, c) == SelectSeq(list, LAMBDA x : x # c)

\* the tasks that have been created, have not ended and are not cancelled
RunningTasks ==
    {t \in TaskIds : ws.tasks[t] \in {"start", "update", "broadcast", "sleep"}
                      /\ t \notin ws.cancel}

\* the state of a broadcast that has just entered its loop, called by owner
\* (0: called directly); sent, failed, at_start and present record what the
\* loop does and which connections stay in the list throughout
BroadcastStarted(owner) ==
    [pc |-> "loop", owner |-> owner, idx |-> 1,
     disconnected_clients |-> <<>>,
     sent |-> <<>>, failed |-> {},
     at_start |-> ws.active_connections,
     present |-> Range(ws.active_connections)]

\* WebSocketService.connect: the connection is accepted and appended
connect ==
    /\ ws.connection_count < MaxClients
    /\ LET c == ws.connection_count + 1
       IN WsStep([op |-> "connect", client |-> c],
                 [ws EXCEPT !.active_connections = Append(@, c),
                            !.connection_count = c])

\* WebSocketService.disconnect: removed if it is in the list
disconnect(c) ==
    /\ c <= ws.connection_count
    /\ WsStep([op |-> "disconnect", client |-> c],
              [ws EXCEPT !.active_connections = Remove(@, c),
                         !.bc.present = @ \ {c}])

\* one iteration of the loop of broadcast that gives up on the first failure
AfterSend_AbortsOnFailure(bc, connection, ok) ==
    [bc EXCEPT !.idx = IF ok THEN @ + 1
                       ELSE Len(ws.active_connections) + 1,
               !.sent = Append(@, connection),
               !.failed = IF ok THEN @ ELSE @ \cup {connection},
               !.disconnected_clients =
                    IF ok THEN @ ELSE Append(@, connection)]

\* one iteration of the loop of broadcast: send_json to the connection the
\* iterator yields; a failure is caught and the connection remembered
AfterSend(bc, connection, ok) ==
    [bc EXCEPT !.idx = @ + 1,
               !.sent = Append(@, connection),
               !.failed = IF ok THEN @ ELSE @ \cup {connection},
               !.disconnected_clients =
                    IF ok THEN @ ELSE Append(@, connection)]

\* broadcast(message) called directly: the loop is entered
broadcast ==
    /\ ws.bc.pc \in {"idle", "done"}
    /\ WsStep([op |-> "broadcast"], [ws EXCEPT !.bc = BroadcastStarted(0)])

\* the iterator yields the connection at its index in the list as it is
\* now, and the send to it succeeds or raises
broadcast_send(ok) ==
    /\ ws.bc.pc = "loop"
    /\ ws.bc.owner \notin ws.cancel
    /\ ws.bc.idx <= Len(ws.active_connections)
    /\ LET connection == ws.active_connections[ws.bc.idx]
       IN WsStep([op |-> "send_json", client |-> connection, ok |-> ok],
                 [ws EXCEPT !.bc = AfterSend(@, connection, ok)])

\* the iterator is exhausted: the connections whose send failed are removed
\* if still in the list, and the caller goes on (the task to its sleep)
broadcast_return ==
    /\ ws.bc.pc = "loop"
    /\ ws.bc.owner \notin ws.cancel
    /\ ws.bc.idx > Len(ws.active_connections)
    /\ WsStep([op |-> "broadcast_return"],
              [ws EXCEPT
                 !.active_connections =
                     SelectSeq(@, LAMBDA x :
                                   x \notin Range(ws.bc.disconnected_clients)),
                 !.bc.pc = "done",
                 !.tasks = IF ws.bc.owner = 0 THEN @
                           ELSE [@ EXCEPT ![ws.bc.owner] = "sleep"]])

\* start_background_task: nothing when the flag is set; otherwise the event
\* is cleared, the flag set and a task created
start_background_task ==
    IF ws.is_background_task_running
    THEN WsStep([op |-> "start_background_task", created |-> 0], ws)
    ELSE \E t \in TaskIds :
            /\ ws.tasks[t] = "none"
            /\ \A u \in TaskIds : u < t => ws.tasks[u] # "none"
            /\ WsStep([op |-> "start_background_task", created |-> t],
                      [ws EXCEPT !.stop_event = FALSE,
                                 !.is_background_task_running = TRUE,
                                 !.tasks[t] = "start",
                                 !.background_task = t])

\* the task resumes at the head of its loop, on its first run or after its
\* sleep: it leaves through the finally when the event is set, and calls
\* the update function otherwise
task_loop(t) ==
    /\ ws.tasks[t] \in {"start", "sleep"}
    /\ t \notin ws.cancel
    /\ WsStep([op |-> "task_loop", task |-> t],
              IF ws.stop_event
              THEN [ws EXCEPT !.tasks[t] = "done",
                              !.is_background_task_running = FALSE]
              ELSE [ws EXCEPT !.tasks[t] = "update"])

\* a loop whose handler lets the task end when the update function raises
AfterUpdate_ExceptionEndsLoop(t, ok) ==
    IF ok /\ ws.active_connections # <<>>
    THEN [ws EXCEPT !.tasks[t] = "broadcast", !.bc = BroadcastStarted(t)]
    ELSE IF ok THEN [ws EXCEPT !.tasks[t] = "sleep"]
    ELSE [ws EXCEPT !.tasks[t] = "done",
                    !.is_background_task_running = FALSE]

\* the body of the loop after the update function: with data and a
\* connection the task enters broadcast, otherwise it sleeps, in the
\* handler when the function raised
AfterUpdate(t, ok) ==
    IF ok /\ ws.active_connections # <<>>
    THEN [ws EXCEPT !.tasks[t] = "broadcast", !.bc = BroadcastStarted(t)]
    ELSE [ws EXCEPT !.tasks[t] = "sleep"]

\* the update function awaited by the task returns or raises
task_update(t, ok) ==
    /\ ws.tasks[t] = "update"
    /\ t \notin ws.cancel
    /\ (ok /\ ws.active_connections # <<>>) => ws.bc.pc \in {"idle", "done"}
    /\ WsStep([op |-> "update_function", task |-> t, ok |-> ok],
              AfterUpdate(t, ok))

\* a cancelled task gets CancelledError at the await it is suspended in:
\* no handler of the loop catches it and the finally clears the flag; a task
\* cancelled before its first run never enters the try
task_cancelled(t) ==
    /\ t \in ws.cancel
    /\ ws.tasks[t] \in {"start", "update", "broadcast", "sleep"}
    /\ WsStep([op |-> "task_cancelled", task |-> t],
              [ws EXCEPT !.tasks[t] = "done",
                         !.cancel = @ \ {t},
                         !.is_background_task_running =
                              IF ws.tasks[t] = "start" THEN @ ELSE FALSE,
                         !.bc = IF ws.bc.owner = t /\ ws.bc.pc = "loop"
                                THEN NoBroadcast ELSE @])

\* stop_background_task up to its wait: nothing without a task or with the
\* flag clear; otherwise the event is set and the task waited for
stop_background_task ==
    /\ ws.stopper.pc = "idle"
    /\ WsStep([op |-> "stop_background_task"],
              IF ws.background_task # 0 /\ ws.is_background_task_running
              THEN [ws EXCEPT !.stop_event = TRUE,
                              !.stopper = [pc |-> "wait",
                                           waited |-> ws.background_task]]
              ELSE ws)

\* the wait ends, by the end of the task waited for or by the timeout: the
\* task is cancelled if background_task, read again, is still pending; then
\* background_task is None and the flag clear
stop_wait_returns(timeout) ==
    /\ ws.stopper.pc = "wait"
    /\ timeout <=> ws.tasks[ws.stopper.waited] # "done"
    /\ WsStep([op |-> "stop_wait_returns", timeout |-> timeout],
              [ws EXCEPT !.cancel =
                              IF timeout /\ ws.background_task = ws.stopper.waited
                              THEN @ \cup {ws.stopper.waited} ELSE @,
                         !.background_task = 0,
                         !.is_background_task_running = FALSE,
                         !.stopper = [pc |-> "idle", waited |-> 0]])

NextTask ==
    \/ start_background_task
    \/ stop_background_task
    \/ \E timeout \in BOOLEAN : stop_wait_returns(timeout)
    \/ \E t \in TaskIds : task_loop(t)
    \/ \E t \in TaskIds, ok \in BOOLEAN : task_update(t, ok)
    \/ \E t \in TaskIds : task_cancelled(t)

SpecTask == Init /\ [][NextTask]_vars

\* the application: one task started, connections opened and closed by the
\* endpoint, the task stopped at shutdown
NextLoop ==
    \/ ws.tasks[1] = "none" /\ start_background_task
    \/ connect
    \/ \E c \in Clients : disconnect(c)
    \/ task_loop(1)
    \/ \E ok \in BOOLEAN : task_update(1, ok)
    \/ \E ok \in BOOLEAN : broadcast_send(ok)
    \/ broadcast_return
    \/ stop_background_task
    \/ \E timeout \in BOOLEAN : stop_wait_returns(timeout)
    \/ task_cancelled(1)

\* the event loop resumes the task whenever its await is over, the server
\* starts the task, and the update function does not fail for ever
LoopFairness ==
    /\ WF_vars(ws.tasks[1] = "none" /\ start_background_task)
    /\ WF_vars(task_loop(1))
    /\ WF_vars(\E ok \in BOOLEAN : task_update(1, ok))
    /\ SF_vars(task_update(1, TRUE))
    /\ WF_vars(\E ok \in BOOLEAN : broadcast_send(ok))
    /\ WF_vars(broadcast_return)

SpecLoop == Init /\ [][NextLoop]_vars /\ LoopFairness

\* broadcasts called one after the other, the connections changing only
\* between them
NextBroadcastAlone ==
    \/ ws.bc.pc # "loop" /\ connect
    \/ \E c \in Clients : ws.bc.pc # "loop" /\ disconnect(c)
    \/ broadcast
    \/ \E ok \in BOOLEAN : broadcast_send(ok)
    \/ broadcast_return

SpecBroadcastAlone == Init /\ [][NextBroadcastAlone]_vars

\* broadcasts with the endpoint handlers running while a send is suspended
NextBroadcast ==
    \/ connect
    \/ \E c \in Clients : disconnect(c)
    \/ broadcast
    \/ \E ok \in BOOLEAN : broadcast_send(ok)
    \/ broadcast_return

SpecBroadcast == Init /\ [][NextBroadcast]_vars

\* --------------------------------------------------------- get_all_data
\* the collectors get_all_data awaits besides the statistics pass, each with
\* its own handlers: the share is connected and the work succeeds, the
\* share is not connected, or an exception is raised inside the collector
Collectors == {"file_counts", "success_rates", "processing_status"}
CollectorOutcomes == {"ok", "not_connected", "raised"}

\* an exception raised in the body of get_all_data itself, outside every
\* collector: none, one of the FileMonitor classes, any other Exception
Escaped == {"None", "FileMonitorError", "Exception"}

\* what a collector hands back: its data, or the default section its own
\* handler builds
Section(outcome) == IF outcome = "ok" THEN "data" ELSE "default"

\* a message that reports the failure of a collector in an error field
AllDataMessage_ErrorOnCollectorFailure(o, escaped) ==
    IF escaped = "None" /\ \A c \in Collectors : o[c] = "ok"
    THEN [type |-> "all_data",
          sections |-> [c \in Collectors |-> "data"],
          error |-> "None"]
    ELSE [type |-> "all_data",
          sections |-> [c \in Collectors |-> "default"],
          error |-> IF escaped = "None" THEN "Exception" ELSE escaped]

\* the message get_all_data returns: the sections the collectors handed
\* back, or, from its two handlers, empty sections and the error text
AllDataMessage(o, escaped) ==
    IF escaped = "None"
    THEN [type |-> "all_data",
          sections |-> [c \in Collectors |-> Section(o[c])],
          error |-> "None"]
    ELSE [type |-> "all_data",
          sections |-> [c \in Collectors |-> "default"],
          error |-> escaped]

\* get_all_data after its statistics pass has returned: the other
\* collectors are awaited and the message is built
get_all_data(o, escaped) ==
    /\ cyc.kind = "returned"
    /\ cyc' = Idle
    /\ ret' = AllDataMessage(o, escaped)
    /\ exc' = "None"
    /\ log' = IF escaped = "None" THEN {} ELSE {"error_getting_all_data"}
    /\ last_op' = [op |-> "get_all_data", outcomes |-> o,
                   escaped |-> escaped]
    /\ UNCHANGED <<now, pi_states, monitoring_states, last_statuses,
                   win_pi_states, trace, threads, ws, uiVars>>

NextAllData ==
    \/ StartStatsCycle(monitoring_states)
    \/ \E o1 \in Upstream, c \in Counts, o2, o3 \in {"ok", "timeout"} :
          StatsStep(o1, c, o2, o3)
    \/ FinishStatsCycle
    \/ \E o \in [Collectors -> CollectorOutcomes], escaped \in Escaped :
          get_all_data(o, escaped)

SpecAllData == Init /\ [][NextAllData]_vars

\* ------------------------------------------------------ pi-monitor output
\* the identity a device reports in its main answer: its own name (also the
\* default when the key is missing) or a name of its own choosing
Identities(pi_name) == {pi_name, "cam-1"}

\* the totalFiles and uploadedFiles a device reports
FileTotals == {0, 5}

\* str(n) and int(s) on those values
StrOf(n) == IF n = 5 THEN "5" ELSE "0"
IntOf(cell) == IF cell = "5" THEN 5 ELSE 0

\* what the health check gets from one device: no healthy answer, or a
\* healthy one followed by the main data
HealthAnswers(pi_name) ==
    {[online |-> FALSE]} \cup
    {[online |-> TRUE, identity |-> id, totalFiles |-> n, uploadedFiles |-> m] :
        id \in Identities(pi_name), n \in FileTotals, m \in FileTotals}

AllHealthAnswers ==
    {a \in [KnownDevices -> UNION {HealthAnswers(p) : p \in KnownDevices}] :
        \A p \in KnownDevices : a[p] \in HealthAnswers(p)}

\* the monitoring_data list check_pi_status_and_get_data returns: one tuple
\* (identity, processed, uploaded) per device in the order H1..H10, the
\* default (pi_name, "0", "0") for a device without main data
MonitoringData(answers) ==
    [i \in 1..Len(DeviceOrder) |->
        LET pi_name == DeviceOrder[i]
            a == answers[pi_name]
        IN IF a.online
           THEN <<a.identity, StrOf(a.totalFiles), StrOf(a.uploadedFiles)>>
           ELSE <<pi_name, "0", "0">>]

\* the formatting loop shared by FileMonitor.get_pi_monitor_data and
\* DataService.get_pi_monitor: the flag is looked up under the first field
\* of the tuple
FormatMonitorData(raw, flags) ==
    [i \in DOMAIN raw |->
        LET device_id == raw[i][1]
            is_monitored == Monitored(flags, device_id)
        IN [device |-> device_id,
            processed |-> IF is_monitored THEN IntOf(raw[i][2]) ELSE 0,
            uploaded |-> IF is_monitored THEN IntOf(raw[i][3]) ELSE 0]]

\* FileMonitor.get_pi_monitor_data(monitoring_states), in the web backend
\* (no ui_instance): a health check of every device, then the formatting
get_pi_monitor_data(flags, answers) ==
    /\ ~ui_instance
    /\ ret' = [type |-> "pi_monitor",
               data |-> FormatMonitorData(MonitoringData(answers), flags)]
    /\ last_op' = [op |-> "get_pi_monitor_data", flags |-> flags,
                   answers |-> answers]
    /\ exc' = "None"
    /\ log' = {}
    /\ UNCHANGED <<now, pi_states, monitoring_states, last_statuses,
                   win_pi_states, cycVars, uiVars>>

\* DataService.last_monitoring_data as __init__ leaves it; get_pi_status
\* never replaces it, its probe call raises before the assignment
last_monitoring_data ==
    [i \in 1..Len(DeviceOrder) |-> <<DeviceOrder[i], "0", "0">>]

\* DataService.get_pi_monitor: the stored list formatted with the live flags
get_pi_monitor ==
    /\ ret' = [type |-> "pi_monitor",
               data |-> FormatMonitorData(last_monitoring_data,
                                          monitoring_states)]
    /\ last_op' = [op |-> "get_pi_monitor", flags |-> monitoring_states]
    /\ exc' = "None"
    /\ log' = {}
    /\ UNCHANGED <<now, pi_states, monitoring_states, last_statuses,
                   win_pi_states, cycVars, uiVars>>

NextMonitor ==
    \/ \E p \in DeviceIds, b \in BOOLEAN : set_monitoring_state(p, b)
    \/ \E a \in AllHealthAnswers :
          get_pi_monitor_data(monitoring_states, a)
    \/ get_pi_monitor

SpecMonitor == Init /\ [][NextMonitor]_vars

\* --------------------------------------------------- the two engine copies
\* the same sample (current_count, at the same clock reading) handed to
\* update_processing_status of file_monitor.py and of windows_file_monitor.py
feed_both(pi_name, current_count) ==
    /\ pi_name \in DOMAIN pi_states
    /\ pi_states' = [pi_states EXCEPT
           ![pi_name] = NewState(pi_states[pi_name], current_count, now)]
    /\ win_pi_states' = [win_pi_states EXCEPT
           ![pi_name] = WinNewState(win_pi_states[pi_name], current_count,
                                    now)]
    /\ last_op' = [op |-> "feed_both", pi_name |-> pi_name,
                   count |-> current_count,
                   before |-> StateBefore(pi_states, pi_name)]
    /\ ret' = NoneRet
    /\ exc' = "None"
    /\ log' = UpdateLog(pi_name, current_count)
    /\ UNCHANGED <<now, monitoring_states, last_statuses, cycVars, uiVars>>

NextBoth ==
    \/ Tick
    \/ \E p \in KnownDevices, c \in Counts : feed_both(p, c)

SpecBoth == Init /\ [][NextBoth]_vars

\* the same, fed only counts that never go down
NextBothRising ==
    \/ Tick
    \/ \E p \in KnownDevices, c \in Counts :
          /\ c >= pi_states[p].last_count
          /\ feed_both(p, c)

SpecBothRising == Init /\ [][NextBothRising]_vars

\* ------------------------------------------------------------ properties
\* the last step was update_processing_status on a known device
KnownUpdate ==
    /\ last_op.op = "update_processing_status"
    /\ last_op.pi_name \in KnownDevices

\* the record of that device when the call began, and the one it left
Before == last_op.before[1]
After == pi_states[last_op.pi_name]

\* C1: after update_processing_status on a known device with an observed
\* count strictly greater than the stored last_count, whatever the previous
\* status, status = PROCESSING, last_change_time = the time of the call and
\* last_count = the observed count.
C1_IncreaseSetsProcessing ==
    (KnownUpdate /\ last_op.count > Before.last_count)
        => After = [last_count |-> last_op.count,
                    last_change_time |-> now,
                    status |-> PROCESSING]

\* an increase has been evaluated for a device that was DONE, later than
\* the device's previous change
C1_Witness ==
    /\ KnownUpdate
    /\ last_op.count > Before.last_count
    /\ Before.status = DONE
    /\ Before.last_change_time < now

\* C2: a call whose observed count equals last_count on a device that is
\* DONE leaves it DONE, whatever time has passed.
C2_DoneSticky ==
    (KnownUpdate /\ Before.status = DONE
                 /\ last_op.count = Before.last_count)
        => After.status = DONE

\* an unchanged sample has been evaluated on a DONE device
C2_Witness ==
    /\ KnownUpdate
    /\ Before.status = DONE
    /\ last_op.count = Before.last_count
    /\ After.status = DONE
    /\ now - Before.last_change_time > stale_threshold_minutes

\* C3 as stated: the stored status leaves DONE only in an
\* update_processing_status step with a strictly greater count.
C3_LeavesDoneOnlyOnIncrease ==
    [][\A p \in KnownDevices :
          (pi_states[p].status = DONE /\ pi_states'[p].status # DONE)
            => /\ last_op'.op = "update_processing_status"
               /\ last_op'.pi_name = p
               /\ last_op'.count > pi_states[p].last_count]_vars

\* C3 amended: over every step of the system the stored status leaves DONE
\* only in an update_processing_status step for that device whose observed
\* count differs from last_count (greater, or smaller: the anomaly branch).
C3_LeavesDoneOnlyOnChange ==
    [][\A p \in KnownDevices :
          (pi_states[p].status = DONE /\ pi_states'[p].status # DONE)
            => /\ last_op'.op = "update_processing_status"
               /\ last_op'.pi_name = p
               /\ last_op'.count # pi_states[p].last_count]_vars

\* a DONE device has just been moved to WAITING by a smaller count
C3_Witness ==
    /\ KnownUpdate
    /\ Before.status = DONE
    /\ last_op.count < Before.last_count
    /\ After.status = WAITING

\* C4: unchanged count, status not DONE, more than the stale threshold
\* since last_change_time: the call sets DONE and keeps last_count and
\* last_change_time.
C4_StaleSetsDone ==
    (KnownUpdate /\ last_op.count = Before.last_count
                 /\ Before.status # DONE
                 /\ now - Before.last_change_time > stale_threshold_minutes)
        => After = [Before EXCEPT !.status = DONE]

\* a PROCESSING device went DONE after a change later than construction
C4_Witness ==
    /\ KnownUpdate
    /\ last_op.count = Before.last_count
    /\ Before.status = PROCESSING
    /\ Before.last_change_time > 0
    /\ now - Before.last_change_time > stale_threshold_minutes
    /\ After.status = DONE

\* C5: unchanged count, status not DONE, time since last_change_time not
\* above the stale threshold: the call sets WAITING.
C5_FreshSetsWaiting ==
    (KnownUpdate /\ last_op.count = Before.last_count
                 /\ Before.status # DONE
                 /\ now - Before.last_change_time <= stale_threshold_minutes)
        => After.status = WAITING

\* a PROCESSING device sampled unchanged exactly at the threshold
C5_Witness ==
    /\ KnownUpdate
    /\ last_op.count = Before.last_count
    /\ Before.status = PROCESSING
    /\ now - Before.last_change_time = stale_threshold_minutes
    /\ After.status = WAITING

\* the last step was the windows copy's update_processing_status on a
\* known device, and the record it left
WinKnownUpdate ==
    /\ last_op.op = "win_update_processing_status"
    /\ last_op.pi_name \in KnownDevices
WinAfter == win_pi_states[last_op.pi_name]

\* C2 on the windows copy: an unchanged sample leaves a DONE device DONE
C2_WinDoneSticky ==
    (WinKnownUpdate /\ Before.status = WIN_DONE
                    /\ last_op.count = Before.last_count)
        => WinAfter.status = WIN_DONE

\* C6: in either copy of the engine a call on a known device with an
\* observed count strictly less than last_count sets status = WAITING,
\* last_count = the observed count and last_change_time = the call time,
\* logs a warning and raises nothing.
C6_AnomalyHandled ==
    /\ (KnownUpdate /\ last_op.count < Before.last_count)
         => /\ After = [last_count |-> last_op.count,
                        last_change_time |-> now,
                        status |-> WAITING]
            /\ "count_decreased" \in log
            /\ exc = "None"
    /\ (WinKnownUpdate /\ last_op.count < Before.last_count)
         => /\ WinAfter = [last_count |-> last_op.count,
                           last_change_time |-> now,
                           status |-> WIN_WAITING]
            /\ "count_decreased" \in log
            /\ exc = "None"

\* C6 on file_monitor.py alone, where it holds (checked under Spec)
C6_LinuxAnomalyHandled ==
    (KnownUpdate /\ last_op.count < Before.last_count)
        => /\ After = [last_count |-> last_op.count,
                       last_change_time |-> now,
                       status |-> WAITING]
           /\ "count_decreased" \in log
           /\ exc = "None"

\* the last step was update_processing_status with an unknown device id
UnknownUpdate ==
    /\ last_op.op = "update_processing_status"
    /\ last_op.pi_name \notin KnownDevices

C7_WinUnknownRaisesKeyError ==
    (last_op.op = "win_update_processing_status"
       /\ last_op.pi_name \notin KnownDevices) => exc = "KeyError"

\* C8: update_processing_status with an unknown device id leaves the state
\* table as it was: no record is added and no known device's record changes.
C8_UnknownLeavesTable ==
    [][(last_op'.op = "update_processing_status"
          /\ last_op'.pi_name \notin KnownDevices)
         => pi_states' = pi_states]_vars

\* an unknown id has been passed while one device is DONE and another has
\* counted files
C8_Witness ==
    /\ UnknownUpdate
    /\ DOMAIN pi_states = KnownDevices
    /\ pi_states["H1"].status = DONE
    /\ pi_states["H2"].last_count > 0

\* C9: get_all_processing_states returns an entry for every known device:
\* {DISABLED, 0} where the flag passed for the device is false, the stored
\* {status, last_count} where it is true.
C9_SnapshotProjectsFlags ==
    last_op.op = "get_all_processing_states" =>
        /\ ret.type = "states"
        /\ DOMAIN ret.states = KnownDevices
        /\ \A p \in KnownDevices :
             /\ (p \in DOMAIN last_op.flags /\ ~last_op.flags[p])
                  => ret.states[p] = [status |-> DISABLED, count |-> 0]
             /\ (p \in DOMAIN last_op.flags /\ last_op.flags[p])
                  => ret.states[p] = [status |-> pi_states[p].status,
                                      count |-> pi_states[p].last_count]

\* a snapshot with H1 unmonitored while DONE with files counted, and H2
\* monitored while PROCESSING
C9_Witness ==
    /\ last_op.op = "get_all_processing_states"
    /\ last_op.flags = [p \in KnownDevices |-> p # "H1"]
    /\ pi_states["H1"].status = DONE
    /\ pi_states["H1"].last_count > 0
    /\ pi_states["H2"].status = PROCESSING
    /\ ret.states["H1"] = [status |-> DISABLED, count |-> 0]
    /\ ret.states["H2"].status = PROCESSING

\* C10: a snapshot and a flag toggle leave every record of the state table
\* as it was, and a snapshot shows, for a device whose flag is not false,
\* the status and count the table held before the call: switching a flag
\* off and on again resets nothing.
C10_SnapshotIsPureRead ==
    [][/\ last_op'.op \in {"get_all_processing_states",
                           "set_monitoring_state"}
            => pi_states' = pi_states
       /\ last_op'.op = "get_all_processing_states"
            => \A p \in KnownDevices :
                 DictGet(last_op'.flags, p, TRUE)
                   => ret'.states[p] =
                        [status |-> pi_states[p].status,
                         count |-> pi_states[p].last_count]]_vars

\* a snapshot taken with H1's flag false finds H1's record still DONE with
\* its count
C10_Witness ==
    /\ last_op.op = "get_all_processing_states"
    /\ "H1" \in DOMAIN last_op.flags
    /\ ~last_op.flags["H1"]
    /\ ret.states["H1"].status = DISABLED
    /\ pi_states["H1"].status = DONE
    /\ pi_states["H1"].last_count > 0

\* a cycle has just handled a device: the step that moved the loop index on
CycleStepped == cyc'.i = cyc.i + 1 /\ cyc'.step.pi_name \in KnownDevices

C12_FailedCallIsNoSample ==
    [][/\ (CycleStepped /\ cyc'.step.outcome \in Failures)
            => pi_states' = pi_states
       /\ (CycleStepped /\ cyc'.step.flag /\ cyc'.step.outcome = "ok")
            => pi_states'[cyc'.step.pi_name] =
                   NewState(pi_states[cyc'.step.pi_name],
                            cyc'.step.count, now)]_vars

C12_Witness ==
    /\ cyc.step.pi_name = "H2"
    /\ cyc.step.flag
    /\ cyc.step.outcome \in Failures
    /\ last_op.op = "get_pi_total_images"
    /\ pi_states["H2"].last_count > 0
    /\ cyc.step.count # pi_states["H2"].last_count

\* the windows copy returns 0 on a failure without evaluating it
C12_WinFailedCallIsNoSample ==
    [][last_op'.op = "win_get_pi_total_images"
          => win_pi_states' = win_pi_states]_vars

\* C13: a polling cycle that has ended, normally or not, has handled every
\* device: a failed upstream call for one device does not keep the devices
\* after it from being sampled.
C13_CycleVisitsAll ==
    cyc.kind \in {"returned", "aborted"} => cyc.visited = KnownDevices

\* the statistics pass of the web backend catches the failure per device
C13_WebCycleVisitsAll ==
    /\ cyc.kind # "aborted"
    /\ cyc.kind = "returned" => cyc.visited = KnownDevices

\* C14: in every reachable state the state table holds one record for each
\* known device and for nothing else; the records of the state after
\* construction have status WAITING and last_count 0.
C14_OneRecordPerDevice ==
    /\ DOMAIN pi_states = KnownDevices
    /\ \A p \in KnownDevices :
          DOMAIN pi_states[p] = {"last_count", "last_change_time", "status"}
    /\ last_op.op = "__init__"
          => \A p \in KnownDevices :
                /\ pi_states[p].status = WAITING
                /\ pi_states[p].last_count = 0
                /\ pi_states[p].last_change_time = 0

\* an unknown id has been evaluated after both records left their initial
\* values
C14_Witness ==
    /\ UnknownUpdate
    /\ "unknown_pi" \in log
    /\ pi_states["H1"].status = PROCESSING
    /\ pi_states["H2"].status = DONE

\* C15: a step changes a device's last_change_time only if it is an
\* evaluate call for that device with a count different from the stored
\* last_count, and then to the time of the call; every other step (an equal
\* count, a snapshot, a flag toggle, a health probe) leaves it unchanged.
C15_ChangeTimeFrame ==
    [][\A p \in KnownDevices :
          pi_states'[p].last_change_time # pi_states[p].last_change_time
            => /\ last_op'.op = "update_processing_status"
               /\ last_op'.pi_name = p
               /\ last_op'.count # pi_states[p].last_count
               /\ pi_states'[p].last_change_time = now]_vars

\* an equal count has been evaluated later than the last change, and the
\* change time of the record is still the earlier one
C15_Witness ==
    /\ KnownUpdate
    /\ last_op.count = Before.last_count
    /\ After.last_change_time = Before.last_change_time
    /\ After.last_change_time > 0
    /\ now > After.last_change_time

\* the windows copy sets last_change_time in its increase branch only
C15_WinChangeTimeFrame ==
    [][\A p \in KnownDevices :
          win_pi_states'[p].last_change_time
              # win_pi_states[p].last_change_time
            => /\ last_op'.op = "win_update_processing_status"
               /\ last_op'.pi_name = p
               /\ last_op'.count > win_pi_states[p].last_count
               /\ win_pi_states'[p].last_change_time = now]_vars

\* the i-th recorded call repeats the (count, now) pair of the call before
SameAsPrevious(i) ==
    /\ i > 1
    /\ trace.seq[i].pi_name = trace.seq[i - 1].pi_name
    /\ trace.seq[i].count = trace.seq[i - 1].count
    /\ trace.seq[i].time = trace.seq[i - 1].time

\* the stale threshold is crossed between call i - 1 and call i
CrossedBetween(i) ==
    /\ trace.seq[i - 1].since_change <= stale_threshold_minutes
    /\ trace.seq[i].since_change > stale_threshold_minutes

\* C16 as stated: a call with the same (count, now) pair as the call
\* immediately before it leaves the status that call left, unless the stale
\* threshold is crossed between the two.
C16_RepeatKeepsStatus ==
    \A i \in 2..Len(trace.seq) :
        (SameAsPrevious(i) /\ ~CrossedBetween(i))
            => trace.seq[i].status = trace.seq[i - 1].status

\* C16 amended: the repeat of a call leaves the status unchanged except
\* after an increase: the first call set PROCESSING and the repeat, which
\* finds the count unchanged within the threshold, sets WAITING; a third
\* identical call changes nothing any more.
C16_RepeatSettlesAfterIncrease ==
    \A i \in 2..Len(trace.seq) :
        SameAsPrevious(i)
            => /\ trace.seq[i].status =
                     IF trace.seq[i - 1].status = PROCESSING THEN WAITING
                     ELSE trace.seq[i - 1].status
               /\ (i > 2 /\ SameAsPrevious(i - 1))
                     => trace.seq[i].status = trace.seq[i - 1].status

\* an increase has been repeated twice at the time of the increase
C16_Witness ==
    /\ Len(trace.seq) >= 3
    /\ SameAsPrevious(2)
    /\ SameAsPrevious(3)
    /\ trace.seq[1].status = PROCESSING
    /\ trace.seq[1].time > 0

\* the four calls of the end-to-end sequence: the initial count, a greater
\* count, that count again within the threshold of the change, that count
\* once more after more than the threshold
EndToEndCalls ==
    /\ Len(trace.seq) = 4
    /\ trace.seq[1].count = 0
    /\ trace.seq[2].count > trace.seq[1].count
    /\ trace.seq[3].count = trace.seq[2].count
    /\ trace.seq[3].since_change <= stale_threshold_minutes
    /\ trace.seq[4].count = trace.seq[2].count
    /\ trace.seq[4].since_change > stale_threshold_minutes

\* the statuses left by the recorded calls
Statuses == [i \in 1..Len(trace.seq) |-> trace.seq[i].status]

\* C17 as stated: from the initial state, the four calls of the end-to-end
\* sequence leave WAITING, PROCESSING, WAITING, DONE.
C17_EndToEnd ==
    EndToEndCalls => Statuses = <<WAITING, PROCESSING, WAITING, DONE>>

\* C17 amended: the sequence leaves WAITING, PROCESSING, WAITING, DONE when
\* the first call is made within the stale threshold of construction; a
\* first call made later finds the initial record stale and leaves DONE.
C17_EndToEndFromFreshStart ==
    EndToEndCalls
        => Statuses =
             IF trace.seq[1].since_change <= stale_threshold_minutes
             THEN <<WAITING, PROCESSING, WAITING, DONE>>
             ELSE <<DONE, PROCESSING, WAITING, DONE>>

C17_Witness ==
    /\ EndToEndCalls
    /\ trace.seq[1].time = 0
    /\ trace.seq[3].time > trace.seq[2].time
    /\ pi_states["H1"].status = DONE

C18_DetectorMissingFlag ==
    \A f \in FlagMaps : \A p \in KnownDevices \ DOMAIN f :
        Flashes(f, p) = Flashes(DictSet(f, p, TRUE), p)

\* the detector's timer has fired
IsDetectorTick ==
    last_op'.op = "check_status_updates" /\ last_op' # last_op

\* the flash state of a device, off until the first toggle
FlashState(states, pi_name) == DictGet(states, pi_name, FALSE)

\* the flash conditions of a device as stated: monitored, an update
\* timestamp more than 15 minutes old, and an externally observed count
\* more than 4 away from the last seen count
FlashConditions(pi_name) ==
    /\ DictGet(monitoring_states, pi_name, TRUE)
    /\ pi_name \in DOMAIN status_timestamps
    /\ now - status_timestamps[pi_name] > 15
    /\ pi_name \in DOMAIN status_counts
    /\ pi_name \in DOMAIN pi_monitor_tree
    /\ Abs(ProcessedInt(pi_monitor_tree[pi_name]) - status_counts[pi_name])
          > 4

\* C19: a detector tick toggles the flash state of a device if and only if
\* the device is monitored, has an update timestamp more than 15 minutes
\* old and an observed count more than 4 away from the last seen count.
C19_TogglesIffConditions ==
    [][IsDetectorTick
         => \A p \in KnownDevices :
               (FlashState(flashing_states', p)
                    # FlashState(flashing_states, p))
                 <=> FlashConditions(p)]_vars

\* a tick has switched the flash state of H1 on, 5 files away from the
\* last seen count
C19_Witness ==
    /\ last_op.op = "check_status_updates"
    /\ FlashState(flashing_states, "H1")
    /\ FlashConditions("H1")
    /\ status_counts["H1"] = 0
    /\ pi_monitor_tree["H1"] = "5"

\* C20: on a tick that follows a tick, with the flash conditions holding,
\* the colour shown for the device changes.
C20_ColorAlternates ==
    [][\A p \in KnownDevices :
          (last_op.op = "check_status_updates" /\ IsDetectorTick
             /\ FlashConditions(p))
            => rect_fill'[p] # rect_fill[p]]_vars

\* the first tick with the flash conditions holding does change the colour,
\* to the flash colour of the status shown
C20_FirstFlashChangesColor ==
    [][\A p \in KnownDevices :
          (IsDetectorTick /\ FlashConditions(p)
             /\ rect_fill[p] \in {WIN_PROCESSING, WIN_WAITING, WIN_DONE})
            => /\ rect_fill'[p] = get_flash_color(rect_fill[p])
               /\ rect_fill'[p] # rect_fill[p]]_vars

\* the colours update_processing_status gives an indicator
SteadyColors == {WIN_PROCESSING, WIN_WAITING, WIN_DONE}

\* C21: after a detector tick at which the flash conditions do not hold for
\* a device, the colour shown for it is a steady colour, not the flash
\* colour an earlier tick left.
C21_SteadyWhenConditionsFail ==
    last_op.op = "check_status_updates"
        => \A p \in KnownDevices :
              ~FlashConditions(p) => rect_fill[p] \in SteadyColors

\* C22: a detector tick leaves the flash state and the colour of a device
\* unchanged when the device is unmonitored or has no update timestamp.
C22_DetectorSkipsUntracked ==
    [][IsDetectorTick
         => \A p \in KnownDevices :
               (~DictGet(monitoring_states, p, TRUE)
                  \/ p \notin DOMAIN status_timestamps)
                 => /\ rect_fill'[p] = rect_fill[p]
                    /\ (p \in DOMAIN flashing_states')
                          = (p \in DOMAIN flashing_states)
                    /\ FlashState(flashing_states', p)
                          = FlashState(flashing_states, p)]_vars

\* a tick has passed over H1, switched off by the operator while its
\* timestamp is old and its tree row is 5 files ahead, and over H2, which
\* has never been reported
C22_Witness ==
    /\ last_op.op = "check_status_updates"
    /\ ~monitoring_states["H1"]
    /\ "H1" \in DOMAIN status_timestamps
    /\ now - status_timestamps["H1"] > 15
    /\ "H1" \in DOMAIN pi_monitor_tree
    /\ Abs(ProcessedInt(pi_monitor_tree["H1"]) - status_counts["H1"]) > 4
    /\ "H2" \notin DOMAIN status_timestamps

C24_FailedProbeShowsOffline ==
    [][\A p \in KnownDevices :
          (/\ last_op.op = "get_pi_status"
           /\ last_op.connected
           /\ ~last_op.statuses[p]
           /\ last_op'.op = "get_all_processing_states"
           /\ DictGet(last_op'.flags, p, TRUE))
            => ret'.states[p].status = OFFLINE]_vars

\* the other half of C24 does hold: a device that is down and switched off
\* is reported DISABLED
C24_DisabledOverridesOffline ==
    [][\A p \in KnownDevices :
          (/\ last_op.op = "get_pi_status"
           /\ ~last_op.statuses[p]
           /\ last_op'.op = "get_all_processing_states"
           /\ ~DictGet(last_op'.flags, p, TRUE))
            => ret'.states[p].status = DISABLED]_vars

\* thread t has just executed state.last_count = current_count
StoredCount(t) ==
    /\ threads[t].pc = "store_last_count"
    /\ threads'[t].pc = "store_status"

\* C25: when two statistics passes evaluate the same device at overlapping
\* times the record is what some one-at-a-time order of the evaluations
\* leaves: last_count goes down only through an evaluation that took the
\* decrease branch (and logged the warning), never as a mixture of two
\* evaluations.
C25_LastCountDropsOnlyByDecrease ==
    [][\A p \in KnownDevices :
          pi_states'[p].last_count < pi_states[p].last_count
          => \E t \in Threads : StoredCount(t) /\ threads[t].branch = "decrease"]_vars

\* both threads are inside the method for H1 between their decision and
\* their writes, each having taken the increase branch on a different count
C25_Overlap ==
    /\ \A t \in Threads : threads[t].pc = "store_last_count"
    /\ \A t \in Threads : threads[t].branch = "increase"
    /\ threads[1].current_count # threads[2].current_count

\* C26: last_change_time of a device never moves backwards, also when two
\* evaluations of the device overlap.
C26_ChangeTimeNeverMovesBack ==
    [][\A p \in KnownDevices :
          pi_states'[p].last_change_time >= pi_states[p].last_change_time]_vars

\* two threads about to write last_change_time hold different clock readings
C26_Overlap ==
    /\ \A t \in Threads : threads[t].pc = "decide"
    /\ threads[1].now # threads[2].now

\* C27: an evaluation cycle reads the monitoring flags once, as one copy, and
\* decides every device from that copy: the flag a step of the cycle used for
\* its device is the flag the device had when the cycle started.
C27_CycleUsesOneCopy ==
    cyc.step # NoStep
    => cyc.step.flag = Monitored(cyc.flags, cyc.step.pi_name)

\* a flag differs from what it was when the pass started, while the pass is
\* still running
C27_ToggledMidCycle ==
    /\ cyc.kind = "desk"
    /\ cyc.i <= Len(DeviceOrder)
    /\ Monitored(monitoring_states, DeviceOrder[cyc.i])
          # Monitored(cyc.flags, DeviceOrder[cyc.i])

\* C28 as stated: a PROCESSING or WAITING device sampled with an unchanged
\* count becomes DONE once the time since last_change_time is at least the
\* stale threshold, the threshold itself included.
C28_DoneAtOrAfterThreshold ==
    (KnownUpdate /\ last_op.count = Before.last_count
                 /\ Before.status \in {PROCESSING, WAITING}
                 /\ now - Before.last_change_time >= stale_threshold_minutes)
        => After.status = DONE

\* C28 amended: a PROCESSING or WAITING device sampled with an unchanged count
\* becomes DONE exactly when the time since last_change_time is strictly
\* greater than the stale threshold; at the threshold itself, and below it,
\* the call leaves it WAITING.
C28_DoneOnlyPastThreshold ==
    (KnownUpdate /\ last_op.count = Before.last_count
                 /\ Before.status \in {PROCESSING, WAITING})
        => /\ After.status \in {DONE, WAITING}
           /\ After.status = DONE
                 <=> now - Before.last_change_time > stale_threshold_minutes

\* a WAITING device sampled unchanged exactly at the threshold stays WAITING
C28_Witness ==
    /\ KnownUpdate
    /\ last_op.count = Before.last_count
    /\ Before.status = WAITING
    /\ now - Before.last_change_time = stale_threshold_minutes
    /\ After.status = WAITING

\* the latest call of update_processing_status recorded for H1
LatestCall == trace.seq[Len(trace.seq)]

\* C29: with a non-decreasing clock and update_processing_status as the only
\* writer, whenever a device's status is DONE the time of its latest
\* evaluation minus last_change_time is greater than the stale threshold.
C29_DoneOnlyPastThreshold ==
    pi_states["H1"].status = DONE
    => /\ Len(trace.seq) > 0
       /\ LatestCall.time - pi_states["H1"].last_change_time
             > stale_threshold_minutes

\* DONE held by a later call than the one that set it, after a count change
\* later than construction
C29_Witness ==
    /\ pi_states["H1"].status = DONE
    /\ pi_states["H1"].last_change_time > 0
    /\ Len(trace.seq) > 2
    /\ trace.seq[Len(trace.seq) - 1].status = DONE
    /\ LatestCall.status = DONE

\* C30: immediately after update_processing_status on a known device, status
\* is PROCESSING if and only if the observed count was strictly greater than
\* the last_count stored before the call.
C30_ProcessingIffIncrease ==
    KnownUpdate
    => (After.status = PROCESSING <=> last_op.count > Before.last_count)

\* a PROCESSING device sampled with the same count leaves PROCESSING
C30_Witness ==
    /\ KnownUpdate
    /\ Before.status = PROCESSING
    /\ last_op.count = Before.last_count
    /\ After.status # PROCESSING

\* C31: fed the same samples from the same initial state, the record of
\* file_monitor.py and the record of windows_file_monitor.py hold the same
\* last_count, the same last_change_time and, the enum read as its colour,
\* the same status after every sample.
C31_CopiesAgree ==
    \A p \in KnownDevices :
        win_pi_states[p] = [pi_states[p] EXCEPT !.status = StatusColor(@)]

\* both copies have just been fed a count below the one they hold
C31_FedDecrease ==
    /\ last_op.op = "feed_both"
    /\ last_op.count < last_op.before[1].last_count

\* the last step was a snapshot that reports H1 as monitored
SnapshotOfH1 ==
    /\ last_op.op = "get_all_processing_states"
    /\ Monitored(last_op.flags, "H1")

\* thread t has stored its count for H1 and not yet its status
BetweenStores(t) ==
    /\ threads[t].pc = "store_status"
    /\ threads[t].pi_name = "H1"

\* C32: a snapshot taken while a thread is inside update_processing_status
\* for the device returns the status and the count of one and the same
\* evaluation: when the count it returns is the one the evaluation in
\* progress has stored, the status it returns is that evaluation's status.
C32_SnapshotPairsOneEvaluation ==
    SnapshotOfH1
    => \A t \in Threads :
          BetweenStores(t) => ret.states["H1"].status = threads[t].new_status

\* what every record left by a finished evaluation satisfies, asked of the
\* pair a snapshot returns: PROCESSING only with a count above zero
C32_SnapshotPairIsPossible ==
    SnapshotOfH1
    => (ret.states["H1"].status = PROCESSING
        => ret.states["H1"].count > 0)

\* a snapshot was taken between the two stores of an evaluation
C32_SnapshotBetweenStores ==
    /\ SnapshotOfH1
    /\ BetweenStores(1)

\* C33: every result of _get_pi_statistics_sync has exactly one entry per
\* device, in the order of the devices, in each of the sent, tagged and bibs
\* lists, whichever of the three upstream calls of a device succeed or fail.
C33_OneEntryPerDeviceInOrder ==
    ret.type = "statistics"
    => /\ ret.sent = DeviceOrder
       /\ ret.tagged = DeviceOrder
       /\ ret.bibs = DeviceOrder

\* a pass returned after the first call of a monitored device succeeded and
\* a later call of that device failed
C33_LaterCallFailed ==
    /\ ret.type = "statistics"
    /\ Len(ret.sent) > Len(ret.tagged)

\* C34: for every device whose monitoring flag is false the pi-monitor
\* output reports processed = 0 and uploaded = 0, whatever identity the
\* device reports about itself.
C34_DisabledReportsZero ==
    ret.type = "pi_monitor"
    => \A i \in 1..Len(DeviceOrder) :
          ~Monitored(last_op.flags, DeviceOrder[i])
          => ret.data[i].processed = 0 /\ ret.data[i].uploaded = 0

\* the same for the output the websocket sends, DataService.get_pi_monitor
C34_StoredDataReportsZero ==
    last_op.op = "get_pi_monitor" => C34_DisabledReportsZero

\* an unmonitored device answered the health check with files to report
\* under an identity that is not its name
C34_DisabledReportsOtherIdentity ==
    /\ last_op.op = "get_pi_monitor_data"
    /\ ~Monitored(last_op.flags, "H1")
    /\ last_op.answers["H1"].online
    /\ last_op.answers["H1"].identity # "H1"
    /\ last_op.answers["H1"].totalFiles > 0

\* C35: at most one background broadcast task is active at any time, for
\* any sequence of start_background_task and stop_background_task calls, a
\* stop that times out and cancels the task included.
C35_AtMostOneTask == Cardinality(RunningTasks) <= 1

\* a start has just returned without creating a task, one being active
C35_StartRefused ==
    /\ last_op.op = "start_background_task"
    /\ last_op.created = 0
    /\ Cardinality(RunningTasks) = 1

\* how many times connection c was handed the message by the broadcast
TimesSent(c) == Cardinality({i \in DOMAIN ws.bc.sent : ws.bc.sent[i] = c})

\* C37: when broadcast returns, every connection of the list has been
\* tried, in order, the ones after a failed send included, and the list is
\* what it was without the connections whose send failed.
C37_FailedRemovedOthersServed ==
    last_op.op = "broadcast_return"
    => /\ ws.bc.sent = ws.bc.at_start
       /\ ws.active_connections =
             SelectSeq(ws.bc.at_start, LAMBDA x : x \notin ws.bc.failed)

\* a broadcast returned after a failed send followed by a successful one
C37_Witness ==
    /\ last_op.op = "broadcast_return"
    /\ Len(ws.bc.sent) >= 2
    /\ ws.bc.sent[1] \in ws.bc.failed
    /\ ws.bc.sent[2] \notin ws.bc.failed
    /\ ws.active_connections # <<>>

\* C38: a connection that is in active_connections for the whole duration
\* of a broadcast is sent the message exactly once, also when other
\* connections are opened or closed while the broadcast is suspended.
C38_PresentSentOnce ==
    last_op.op = "broadcast_return"
    => \A c \in ws.bc.present : TimesSent(c) = 1

\* a connection was closed while the broadcast was in its loop
C38_ClosedDuringBroadcast ==
    /\ last_op.op = "disconnect"
    /\ ws.bc.pc = "loop"
    /\ last_op.client \in Range(ws.bc.at_start)
    /\ ws.bc.present # {}

\* the task is in its loop and has not been told to stop
Looping == 1 \in RunningTasks /\ ~ws.stop_event

Connected(c) == c \in Range(ws.active_connections)

\* the message has just been sent to connection c
Delivered(c) ==
    /\ last_op.op = "send_json"
    /\ last_op.client = c
    /\ last_op.ok

\* C36: while the background task runs and is not stopped, an exception of
\* the update function leaves the task in its loop, asleep until the next
\* cycle, and a connection that stays open is sent the message again and
\* again.
C36_LoopGoesOn ==
    /\ [][\A ok \in BOOLEAN :
             task_update(1, ok) => ws'.tasks[1] \in {"sleep", "broadcast"}]_vars
    /\ \A c \in Clients :
          <>[](Looping /\ Connected(c)) => []<>Delivered(c)

\* the update function raised with a connection open, and the task sleeps
C36_Witness ==
    /\ last_op.op = "update_function"
    /\ ~last_op.ok
    /\ ws.tasks[1] = "sleep"
    /\ ws.active_connections # <<>>
    /\ Looping

\* the last step was the return of get_all_data
AllDataReturned == last_op.op = "get_all_data"

\* a collector, or the body of get_all_data, failed during that call
SomethingFailed ==
    \/ last_op.escaped # "None"
    \/ \E c \in Collectors : last_op.outcomes[c] # "ok"

====
